---------------------------- MODULE Spec2Model ----------------------------
(***************************************************************************)
(* A model of miniDB's Database class (src/miniDB/database.py).            *)
(*                                                                         *)
(* Several operating-system processes each hold a Database object: an     *)
(* in-memory catalog self.tables.  They share one database directory of   *)
(* pickled tables.  mem[p] is process p's catalog, disk the directory.    *)
(*                                                                         *)
(* A catalog is a record                                                   *)
(*    tables : table name -> sequence of row slots   (the user tables)     *)
(*    length : table name -> number                  (meta_length)         *)
(*    stack  : table name -> sequence of positions   (meta_insert_stack)   *)
(*    locks  : sequence of lock records              (meta_locks)          *)
(* tables, length and stack are partial: their DOMAIN is the set of names  *)
(* that have a table object or a record.                                   *)
(*                                                                         *)
(* The Table class (table.py) is not part of the sources at hand; its row  *)
(* operations are written from section 4.1 of the specification.          *)
(*                                                                         *)
(* Spec   : the operators of the Database class, each one atomic, called   *)
(*          by the processes in any order.                                 *)
(* SpecIO : lock_table, unlock_table and insert_into cut at their file     *)
(*          reads and writes, interleaved between the processes.           *)
(***************************************************************************)
EXTENDS Integers, Sequences, FiniteSets, TLC

VARIABLES mem, disk, held, last, pc, loc

vars == <<mem, disk, held, last, pc, loc>>

---------------------------------------------------------------------------
(* Bounds of the model *)

\* the largest number of row slots a table grows to
MaxRows == 2

\* the same where two processes share the table
MaxRowsPeers == 1

\* the same where two processes read
MaxRowsShared == 1

\* the same where a table has an index
MaxRowsIndexed == 2

\* the same where the steps of two processes interleave
MaxRowsIO == 1

\* rows of a table in SpecTriggers
MaxRowsTriggers == 1

\* rows of a table in SpecExempt
MaxRowsExempt == 1

\* rows of a table in SpecHandOff
MaxRowsHandOff == 2

\* rows of a table in SpecOrder
MaxRowsOrder == 1

---------------------------------------------------------------------------
(* The processes, the tables and the schema *)

\* os.getpid() of the processes sharing the database directory
Procs == {1, 2}

\* the tables the processes create and use; none is a meta table
TableNames == {"x", "y"}

\* the internal tables of the catalog
MetaNames == {"meta_length", "meta_locks", "meta_insert_stack", "meta_indexes"}

\* a table a user creates under a name that begins with meta
MetaPrefixedNames == {"meta_x"}

\* a Table object given where a table name is expected
TableValue == "<Table>"

\* table_name[:4] == 'meta'
IsMeta(n) == n \in MetaNames \cup MetaPrefixedNames

\* every table of the model is created with two columns of type int
ColumnNames == <<"a", "b">>

NumCols == Len(ColumnNames)

\* the values of a field: 0, which Python takes for false, and 1
Values == {0, 1}

\* Python's None, the value of every field of a tombstone
None == -1

\* the row a deleted slot is overwritten with
Tombstone == [i \in 1..NumCols |-> None]

\* the text of the integers, as a row string or a SET argument carries them
DigitStr == <<"0", "1">>

\* the fields of a row string: the text of a value, or text that is no number
Fields == {DigitStr[v + 1] : v \in Values} \cup {"q"}

\* int(field) succeeds
CanCastInt(f) == \E v \in Values : DigitStr[v + 1] = f

\* int(field)
CastInt(f) == CHOOSE v \in Values : DigitStr[v + 1] = f

\* the comparison operators of a condition; over the two values these
\* three select every subset of them that the five of get_op select
Ops == {"==", "<", ">="}

\* a condition 'column op value', parsed
Conditions == [col : 1..NumCols, op : Ops, val : Values]

\* the row strings given to insert_into, split at the commas: rows of the
\* right arity and rows one field short
RowInputs == [1..NumCols -> Fields] \cup [1..(NumCols - 1) -> Fields]

\* the types given to cast: int re-applies to an int, list(int) raises, and
\* a text that names no type makes eval(cast_type) raise
CastTypes == {"int", "list", "nosuchtype"}

\* no process
NoPid == 0

\* the primary key a table is created with: the position of the column,
\* 0 for none.  Table x has the key a, every other table has no key.
PkIdx(t) == IF t = "x" THEN 1 ELSE 0

\* the columns a select asks for: '*' or a list of column positions
Projections ==
    {[all |-> TRUE, cols |-> <<1, 2>>], [all |-> FALSE, cols |-> <<1>>],
     [all |-> FALSE, cols |-> <<2>>]}

\* the names indexes are given
IndexNames == {"i", "j"}

---------------------------------------------------------------------------
(* Partial functions, as Python dictionaries *)

EmptyMap == [k \in {} |-> 0]

\* f.update(g)
Override(f, g) ==
    [k \in DOMAIN f \cup DOMAIN g |-> IF k \in DOMAIN g THEN g[k] ELSE f[k]]

Put(f, k0, v) ==
    [k \in DOMAIN f \cup {k0} |-> IF k = k0 THEN v ELSE f[k]]

Remove(f, k0) == [k \in DOMAIN f \ {k0} |-> f[k]]

\* the elements of a set of numbers, ascending
RECURSIVE Ascending(_)
Ascending(S) ==
    IF S = {} THEN <<>>
    ELSE LET lo == CHOOSE a \in S : \A b \in S : a <= b
         IN <<lo>> \o Ascending(S \ {lo})

---------------------------------------------------------------------------
(* The row store: Table, from section 4.1 of the specification *)

IsLive(slot) == slot # Tombstone

LiveCount(rows) == Cardinality({i \in DOMAIN rows : IsLive(rows[i])})

\* get_op(op, a, b)
Compare(a, op, b) ==
    CASE op = "==" -> a = b
      [] op = "<"  -> a < b
      [] op = ">"  -> a > b
      [] op = "<=" -> a <= b
      [] op = ">=" -> a >= b

\* a tombstone satisfies no condition
Matches(slot, cond) ==
    IsLive(slot) /\ Compare(slot[cond.col], cond.op, cond.val)

\* Table._insert(row, insert_stack): the fields are cast to the column
\* types; the row overwrites the slot on top of the stack, or is appended
\* when the stack is empty.  pos is the position written (from 0), -1 when
\* the insert fails.
TableInsert(rows, row, stack) ==
    IF Len(row) # NumCols \/ \E i \in DOMAIN row : ~CanCastInt(row[i])
    THEN [ok |-> FALSE, rows |-> rows, pos |-> -1]
    ELSE LET new == [i \in 1..NumCols |-> CastInt(row[i])]
         IN IF stack # <<>>
            THEN LET p0 == stack[Len(stack)]
                 IN IF p0 + 1 \in DOMAIN rows
                    THEN [ok |-> TRUE,
                          rows |-> [rows EXCEPT ![p0 + 1] = new],
                          pos |-> p0]
                    ELSE [ok |-> FALSE, rows |-> rows, pos |-> -1]
            ELSE [ok |-> TRUE, rows |-> Append(rows, new), pos |-> Len(rows)]

\* Table._delete_where(condition): the matching rows become tombstones;
\* returns their positions (from 0), ascending
TableDeleteWhere(rows, cond) ==
    [rows |-> [i \in DOMAIN rows |->
                  IF Matches(rows[i], cond) THEN Tombstone ELSE rows[i]],
     deleted |-> Ascending({i - 1 : i \in {j \in DOMAIN rows :
                                              Matches(rows[j], cond)}})]

\* Table._update_rows(set_value, set_column, condition): the value is cast
\* to the column's type and written to every matching row
TableUpdateRows(rows, setcol, setval, cond) ==
    LET hit == {i \in DOMAIN rows : Matches(rows[i], cond)}
    IN IF hit # {} /\ ~CanCastInt(setval)
       THEN [ok |-> FALSE, rows |-> rows, changed |-> FALSE]
       ELSE [ok |-> TRUE,
             rows |-> [i \in DOMAIN rows |->
                          IF i \in hit
                          THEN [rows[i] EXCEPT ![setcol] = CastInt(setval)]
                          ELSE rows[i]],
             changed |-> hit # {}]

\* Table._cast_column(column, type): the type is applied to every live
\* value of the column; one value it cannot convert aborts the cast
TableCastColumn(rows, col, type) ==
    IF type = "list" /\ LiveCount(rows) > 0
    THEN [ok |-> FALSE, rows |-> rows]
    ELSE [ok |-> TRUE, rows |-> rows]

\* the live rows of a slot sequence, in slot order
LiveRows(rows) == SelectSeq(rows, IsLive)

\* s is ordered by column col
Ordered(s, col, asc) ==
    \A i, j \in DOMAIN s :
        i < j => IF asc THEN s[i][col] <= s[j][col] ELSE s[i][col] >= s[j][col]

\* the number of slots of s that hold row r
Count(s, r) == Cardinality({i \in DOMAIN s : s[i] = r})

\* the slots a table may hold
Slots == [1..NumCols -> Values] \cup {Tombstone}

\* Table._sort(column, asc): the live rows are reordered by the column; the
\* specification leaves open where the tombstones go and whether they stay,
\* so every such outcome is one
SortOutcomes(rows, col, asc) ==
    {s \in UNION {[1..n -> Slots] : n \in 0..Len(rows)} :
        /\ \A r \in Slots \ {Tombstone} : Count(s, r) = Count(rows, r)
        /\ Ordered(LiveRows(s), col, asc)}

---------------------------------------------------------------------------
(* The catalog: meta tables and persistence *)

\* Python's any(row): some field is neither None nor 0
AnyRow(row) == \E i \in DOMAIN row : row[i] # None /\ row[i] # 0

\* the count _update_meta_length stores for a table
NonNoneRows(rows) == Cardinality({i \in DOMAIN rows : AnyRow(rows[i])})

\* Database._update_meta_length: a record for every table of the catalog
\* that is no meta table, set to the number of rows that any() finds
\* non-empty
UpdateMetaLength(c) ==
    [c EXCEPT !.length =
        [n \in DOMAIN c.length
                  \cup {k \in DOMAIN c.tables : ~IsMeta(k)} |->
            IF n \in DOMAIN c.tables THEN NonNoneRows(c.tables[n])
            ELSE c.length[n]]]

\* Database._update_meta_insert_stack: an empty stack for every table that
\* is no meta table and has no record yet
UpdateMetaInsertStack(c) ==
    [c EXCEPT !.stack =
        [n \in DOMAIN c.stack
                  \cup {k \in DOMAIN c.tables : ~IsMeta(k)} |->
            IF n \in DOMAIN c.stack THEN c.stack[n] ELSE <<>>]]

\* Database._update
Update(c) == UpdateMetaInsertStack(UpdateMetaLength(c))

\* Database.load_database: every file of the directory replaces the table of
\* its name in the catalog; a table without a file stays as it is in memory
LoadDatabase(m, d) ==
    [m EXCEPT !.tables   = Override(m.tables, d.tables),
              !.length   = d.length,
              !.stack    = d.stack,
              !.locks    = d.locks,
              !.indexes  = d.indexes,
              !.triggers = d.triggers]

\* Database.save_database: every table of the catalog is written to the
\* file of its name; files of tables the catalog does not hold stay
SaveDatabase(m, d) ==
    [d EXCEPT !.tables   = Override(d.tables, m.tables),
              !.length   = m.length,
              !.stack    = m.stack,
              !.locks    = m.locks,
              !.indexes  = m.indexes,
              !.triggers = m.triggers]

\* Database._save_locks
SaveLocks(m, d) == [d EXCEPT !.locks = m.locks]

\* a lock_table that trusts the lock records of its catalog in memory
ReadLocksFromMemory(m, d) == m

\* lock_table, is_locked: meta_locks is read from its file
ReadLocks(m, d) == [m EXCEPT !.locks = d.locks]

\* the lock record inserted by lock_table
LockRecord(t, p) == [table_name |-> t, pid |-> p, mode |-> "x"]

\* meta_locks._select_where('pid', table_name=t).data[0][0]: the pid of the
\* first record of the table, NoPid when there is none (IndexError)
LockHolder(c, t) ==
    LET idx == {i \in DOMAIN c.locks : c.locks[i].table_name = t}
    IN IF idx = {} THEN NoPid
       ELSE c.locks[CHOOSE i \in idx : \A j \in idx : i <= j].pid

\* meta_locks._delete_where(table_name=t): the records of t are removed
DeleteLocks(c, t) ==
    [c EXCEPT !.locks = SelectSeq(@, LAMBDA r : r.table_name # t)]

\* Database._get_insert_stack_for_table; the caller has checked the record
GetInsertStack(c, t) == c.stack[t]

\* Database._update_meta_insert_stack_for_tb: the record of t, if there is
\* one, takes the new stack
UpdateMetaInsertStackForTb(c, t, new) ==
    IF t \in DOMAIN c.stack THEN [c EXCEPT !.stack[t] = new] ELSE c

\* a pop that takes the oldest position off the stack, not the newest
DropFirst(s) == IF s = <<>> THEN <<>> ELSE SubSeq(s, 2, Len(s))

\* insert_stack[:-1]
DropLast(s) == IF s = <<>> THEN <<>> ELSE SubSeq(s, 1, Len(s) - 1)

\* Database._add_to_insert_stack
AddToInsertStack(c, t, indexes) ==
    UpdateMetaInsertStackForTb(c, t, GetInsertStack(c, t) \o indexes)

---------------------------------------------------------------------------
(* The lock manager.  An operator takes the caller's pid p, its catalog m  *)
(* and the directory d, and returns the two as it leaves them, with its   *)
(* result r.                                                               *)

\* a lock_table that does not know the caller's own record: it reports
\* True and inserts a second one
LockCheckWithoutReentry(p, t, m, d) ==
    IF IsMeta(t) \/ t \notin DOMAIN m.tables THEN [m |-> m, r |-> "None"]
    ELSE LET m1 == ReadLocks(m, d)
             h  == LockHolder(m1, t)
         IN IF h # NoPid /\ h # p
            THEN [m |-> m1, r |-> "TableLocked"]
            ELSE [m |-> [m1 EXCEPT !.locks = Append(@, LockRecord(t, p))],
                  r |-> "True"]

\* a lock_table that takes the record of another process for the caller's
LockCheckWithoutOwner(p, t, m, d) ==
    IF IsMeta(t) \/ t \notin DOMAIN m.tables THEN [m |-> m, r |-> "None"]
    ELSE LET m1 == ReadLocks(m, d)
             h  == LockHolder(m1, t)
         IN IF h = NoPid
            THEN [m |-> [m1 EXCEPT !.locks = Append(@, LockRecord(t, p))],
                  r |-> "True"]
            ELSE [m |-> m1, r |-> "False"]

\* a lock_table that exempts no table of the catalog
LockCheckWithoutExemption(p, t, m, d) ==
    IF t \notin DOMAIN m.tables
    THEN [m |-> m, r |-> "None"]
    ELSE LET m1 == ReadLocks(m, d)
             h  == LockHolder(m1, t)
         IN IF h = NoPid
            THEN [m |-> [m1 EXCEPT !.locks = Append(@, LockRecord(t, p))],
                  r |-> "True"]
            ELSE IF h # p THEN [m |-> m1, r |-> "TableLocked"]
            ELSE [m |-> m1, r |-> "False"]

\* lock_table up to the write of meta_locks.pkl: the exemption, the read of
\* the persisted records, the ownership check and the insert in memory
LockCheck(p, t, m, d) ==
    IF IsMeta(t) \/ t \notin DOMAIN m.tables
    THEN [m |-> m, r |-> "None"]
    ELSE LET m1 == ReadLocks(m, d)
             h  == LockHolder(m1, t)
         IN IF h = NoPid
            THEN [m |-> [m1 EXCEPT !.locks = Append(@, LockRecord(t, p))],
                  r |-> "True"]
            ELSE IF h # p THEN [m |-> m1, r |-> "TableLocked"]
            ELSE [m |-> m1, r |-> "False"]

\* Database.lock_table
LockTable(p, t, m, d) ==
    LET c == LockCheck(p, t, m, d)
    IN [m |-> c.m,
        d |-> IF c.r = "True" THEN SaveLocks(c.m, d) ELSE d,
        r |-> c.r]

\* Database.unlock_table
UnlockTable(p, t, force, m, d) ==
    IF t \notin DOMAIN m.tables
    THEN [m |-> m, d |-> d, r |-> "NotInDatabase"]
    ELSE IF ~force /\ LockHolder(m, t) \notin {NoPid, p}
    THEN [m |-> m, d |-> d, r |-> "NotOwner"]
    ELSE LET m1 == DeleteLocks(m, t)
         IN [m |-> m1, d |-> SaveLocks(m1, d), r |-> "ok"]

\* if lock_ownership: self.unlock_table(table_name)
ReleaseIfOwned(p, t, own, m, d) ==
    IF own = "True"
    THEN LET u == UnlockTable(p, t, FALSE, m, d) IN [m |-> u.m, d |-> u.d]
    ELSE [m |-> m, d |-> d]

---------------------------------------------------------------------------
(* The operators.  Each returns, with m, d and r, the lock_ownership it    *)
(* got from lock_table (own; "-" when it did not come to ask) and the slot *)
(* positions the row store wrote (pos): of an insert the slot of the new   *)
(* row, of a delete the positions _delete_where returned.                  *)

\* an operator stopped by an exception before it changed the directory
Raised(m, d, r, own) ==
    [m |-> m, d |-> d, r |-> r, own |-> own, pos |-> <<>>]

\* Database.create_table: no reload and no lock; the new empty table takes
\* the place of any table of that name
CreateTable(p, t, m, d) ==
    LET m1 == Update([m EXCEPT !.tables = Put(@, t, <<>>)])
    IN [m |-> m1, d |-> SaveDatabase(m1, d), r |-> "ok", own |-> "-",
        pos |-> <<>>]

\* insert_into between lock_table and the release: the insert stack is
\* fetched, the row store inserts (an exception of it is caught), and the
\* stack loses its top; the caller has checked that t has a stack record
InsertRows(t, row, m) ==
    LET stack == GetInsertStack(m, t)
        has   == t \in DOMAIN m.tables
        ins   == IF has THEN TableInsert(m.tables[t], row, stack)
                 ELSE [ok |-> FALSE, rows |-> <<>>, pos |-> -1]
        m1    == IF has THEN [m EXCEPT !.tables[t] = ins.rows] ELSE m
    IN [m |-> UpdateMetaInsertStackForTb(m1, t, DropLast(stack)),
        ok |-> ins.ok, pos |-> ins.pos]

\* insert_into after its load_database, m0 being the catalog as loaded
InsertIntoLoaded(p, t, row, m0, d) ==
    LET L  == LockTable(p, t, m0, d)
    IN IF L.r = "TableLocked" THEN Raised(L.m, L.d, "TableLocked", "-")
       ELSE IF t \notin DOMAIN L.m.stack
       THEN Raised(L.m, L.d, "IndexError", L.r)
       ELSE
         LET I  == InsertRows(t, row, L.m)
             U  == ReleaseIfOwned(p, t, L.r, I.m, L.d)
             m3 == Update(U.m)
         IN [m |-> m3, d |-> SaveDatabase(m3, U.d),
             r |-> IF I.ok THEN "ok" ELSE "Aborted", own |-> L.r,
             pos |-> IF I.ok THEN <<I.pos>> ELSE <<>>]

\* Database.insert_into
InsertInto(p, t, row, m, d) ==
    InsertIntoLoaded(p, t, row, LoadDatabase(m, d), d)

\* Database.update_table
UpdateTable(p, t, setcol, setval, cond, m, d) ==
    LET m0 == LoadDatabase(m, d)
        L  == LockTable(p, t, m0, d)
    IN IF L.r = "TableLocked" THEN Raised(L.m, L.d, "TableLocked", "-")
       ELSE IF t \notin DOMAIN L.m.tables
       THEN Raised(L.m, L.d, "KeyError", L.r)
       ELSE
         LET upd == TableUpdateRows(L.m.tables[t], setcol, setval, cond)
         IN IF ~upd.ok THEN Raised(L.m, L.d, "CastError", L.r)
            ELSE
              LET m1 == [L.m EXCEPT !.tables[t] = upd.rows]
                  U  == ReleaseIfOwned(p, t, L.r, m1, L.d)
                  m2 == Update(U.m)
              IN [m |-> m2, d |-> SaveDatabase(m2, U.d),
                  r |-> "ok", own |-> L.r, pos |-> <<>>,
                  changed |-> upd.changed]

\* delete_from after its load_database, m0 being the catalog as loaded
DeleteFromLoaded(p, t, cond, m0, d) ==
    LET L  == LockTable(p, t, m0, d)
    IN IF L.r = "TableLocked" THEN Raised(L.m, L.d, "TableLocked", "-")
       ELSE IF t \notin DOMAIN L.m.tables
       THEN Raised(L.m, L.d, "KeyError", L.r)
       ELSE
         LET del == TableDeleteWhere(L.m.tables[t], cond)
             m1  == [L.m EXCEPT !.tables[t] = del.rows]
             U   == ReleaseIfOwned(p, t, L.r, m1, L.d)
             m2  == Update(U.m)
             d2  == SaveDatabase(m2, U.d)
             m3  == IF IsMeta(t) THEN m2
                    ELSE AddToInsertStack(m2, t, del.deleted)
         IN [m |-> m3, d |-> SaveDatabase(m3, d2), r |-> "ok", own |-> L.r,
             pos |-> del.deleted]

\* Database.delete_from on a table a user created
DeleteFrom(p, t, cond, m, d) ==
    DeleteFromLoaded(p, t, cond, LoadDatabase(m, d), d)

\* Database.sort; sorted is the outcome of Table._sort
Sort(p, t, sorted, m, d) ==
    LET m0 == LoadDatabase(m, d)
        L  == LockTable(p, t, m0, d)
    IN IF L.r = "TableLocked" THEN Raised(L.m, L.d, "TableLocked", "-")
       ELSE IF t \notin DOMAIN L.m.tables
       THEN Raised(L.m, L.d, "KeyError", L.r)
       ELSE
         LET m1 == [L.m EXCEPT !.tables[t] = sorted]
             U  == ReleaseIfOwned(p, t, L.r, m1, L.d)
             m2 == Update(U.m)
         IN [m |-> m2, d |-> SaveDatabase(m2, U.d), r |-> "ok", own |-> L.r,
             pos |-> <<>>]

\* Database.cast
Cast(p, t, col, type, m, d) ==
    LET m0 == LoadDatabase(m, d)
        L  == LockTable(p, t, m0, d)
    IN IF L.r = "TableLocked" THEN Raised(L.m, L.d, "TableLocked", "-")
       ELSE IF t \notin DOMAIN L.m.tables
       THEN Raised(L.m, L.d, "KeyError", L.r)
       ELSE
         LET cst == TableCastColumn(L.m.tables[t], col, type)
         IN IF type = "nosuchtype" THEN Raised(L.m, L.d, "NameError", L.r)
            ELSE IF ~cst.ok THEN Raised(L.m, L.d, "CastError", L.r)
            ELSE
              LET m1 == [L.m EXCEPT !.tables[t] = cst.rows]
                  U  == ReleaseIfOwned(p, t, L.r, m1, L.d)
                  m2 == Update(U.m)
              IN [m |-> m2, d |-> SaveDatabase(m2, U.d),
                  r |-> "ok", own |-> L.r, pos |-> <<>>]

\* a delete_from that reloads and leaves the records of t where they are
DeleteFromMetaKept(which, t, m, d) == [m |-> LoadDatabase(m, d), d |-> d]

\* Database.delete_from on the meta table `which`, as drop_table calls it:
\* reload, no lock (the table is exempt), the records of t removed, the
\* meta tables refreshed, the catalog saved
DeleteFromMeta(which, t, m, d) ==
    LET m0 == LoadDatabase(m, d)
        m1 == CASE which = "meta_locks"  -> DeleteLocks(m0, t)
                [] which = "meta_length" ->
                       [m0 EXCEPT !.length = Remove(@, t)]
                [] which = "meta_insert_stack" ->
                       [m0 EXCEPT !.stack = Remove(@, t)]
        m2 == Update(m1)
    IN [m |-> m2, d |-> SaveDatabase(m2, d)]

\* Database.drop_table
DropTable(p, t, m, d) ==
    LET m0 == LoadDatabase(m, d)
        L  == LockTable(p, t, m0, d)
    IN IF t = "triggers" THEN Raised(m, d, "Rejected", "-")
       ELSE IF L.r = "TableLocked" THEN Raised(L.m, L.d, "TableLocked", "-")
       ELSE IF t \notin DOMAIN L.m.tables
       THEN Raised(L.m, L.d, "KeyError", L.r)
       ELSE
         LET m1 == [L.m EXCEPT !.tables = Remove(@, t)]
             d1 == [L.d EXCEPT !.tables = Remove(@, t)]
             a  == DeleteFromMeta("meta_locks", t, m1, d1)
             b  == DeleteFromMeta("meta_length", t, a.m, a.d)
             c  == DeleteFromMeta("meta_insert_stack", t, b.m, b.d)
         IN [m |-> c.m, d |-> SaveDatabase(c.m, c.d), r |-> "ok", own |-> L.r,
             pos |-> <<>>]

---------------------------------------------------------------------------
(* The index and the select.  A B-tree is held as the set of its entries  *)
(* (key, pos); Btree and the select methods of Table are taken from       *)
(* sections 4.1, 4.2 and 4.5 of the specification.                        *)

\* Table.column_by_name: the cell of every slot, in slot order
ColumnByName(rows, col) == [i \in DOMAIN rows |-> rows[i][col]]

\* Database._construct_index: bt.insert(key, idx) for idx, key in
\* enumerate(column_by_name(pk))
ConstructIndex(rows, pk) ==
    LET column == ColumnByName(rows, pk)
    IN {[key |-> column[i], pos |-> i - 1] : i \in DOMAIN column}

\* Database._has_index
HasIndex(c, t) == \E i \in DOMAIN c.indexes : c.indexes[i].table_name = t

\* the name of the first index meta_indexes has for table t
IndexNameOf(c, t) ==
    LET idx == {i \in DOMAIN c.indexes : c.indexes[i].table_name = t}
    IN c.indexes[CHOOSE i \in idx : \A j \in idx : i <= j].index_name

\* Database.create_index: no reload and no lock; the index is built from
\* the rows in memory
CreateIndex(p, iname, t, m, d) ==
    IF t \notin DOMAIN m.tables THEN Raised(m, d, "KeyError", "-")
    ELSE IF PkIdx(t) = 0 THEN Raised(m, d, "NoPrimaryKey", "-")
    ELSE IF \E i \in DOMAIN m.indexes : m.indexes[i].index_name = iname
    THEN Raised(m, d, "DuplicateIndex", "-")
    ELSE LET m1 == [m EXCEPT !.indexes =
                       Append(@, [table_name |-> t, index_name |-> iname])]
             d1 == [d EXCEPT !.btrees =
                       Put(@, iname, ConstructIndex(m.tables[t], PkIdx(t)))]
         IN [m |-> m1, d |-> SaveDatabase(m1, d1), r |-> "ok", own |-> "-",
             pos |-> <<>>]

\* a sequence without the repetitions of its elements
RECURSIVE Dedup(_)
Dedup(s) ==
    IF s = <<>> THEN <<>>
    ELSE LET r == Dedup(SubSeq(s, 1, Len(s) - 1))
             x == s[Len(s)]
         IN IF \E i \in DOMAIN r : r[i] = x THEN r ELSE Append(r, x)

\* the columns proj asks for, of every row of s
Project(s, proj) ==
    [i \in DOMAIN s |-> [k \in DOMAIN proj.cols |-> s[i][proj.cols[k]]]]

\* Table._select_where: the live rows that satisfy the condition, in slot
\* order, projected; repetitions go when distinct is asked for and the
\* columns are not '*'
SelectWhere(rows, proj, cond, distinct) ==
    LET hits == Project(SelectSeq(rows, LAMBDA r : Matches(r, cond)), proj)
    IN IF distinct /\ ~proj.all THEN Dedup(hits) ELSE hits

\* the positions of a set of B-tree entries, by key and then by position
RECURSIVE ByKey(_)
ByKey(E) ==
    IF E = {} THEN <<>>
    ELSE LET lo == CHOOSE e \in E : \A f \in E :
                       e.key < f.key \/ (e.key = f.key /\ e.pos <= f.pos)
         IN <<lo.pos>> \o ByKey(E \ {lo})

\* the positions the B-tree gives for a condition on the key: for == the
\* value inserted last for the key, for the other operators the values of
\* the keys in the range, by key
BtreeFind(bt, cond) ==
    LET hits == {e \in bt : e.key # None /\ Compare(e.key, cond.op, cond.val)}
    IN IF cond.op = "=="
       THEN ByKey({e \in hits : \A f \in hits : f.pos <= e.pos})
       ELSE ByKey(hits)

\* Table._select_where_with_btree: the rows at the positions the B-tree
\* gives that are there, live and satisfy the condition, projected; it is
\* not told of distinct
SelectWhereWithBtree(rows, bt, proj, cond) ==
    LET found == BtreeFind(bt, cond)
        at    == SelectSeq(found, LAMBDA q : q + 1 \in DOMAIN rows
                                             /\ Matches(rows[q + 1], cond))
    IN Project([k \in DOMAIN at |-> rows[at[k] + 1]], proj)

\* an is_locked that finds no table locked
IsLockedNever(p, t, m, d) == [m |-> ReadLocks(m, d), r |-> "False"]

\* Database.is_locked up to its return: Table objects and meta tables are
\* exempt, meta_locks is read from its file, a record of another process
\* raises
IsLocked(p, t, m, d) ==
    IF t = TableValue \/ IsMeta(t) THEN [m |-> m, r |-> "False"]
    ELSE LET m1 == ReadLocks(m, d)
         IN [m |-> m1,
             r |-> IF LockHolder(m1, t) \notin {NoPid, p}
                   THEN "TableLocked" ELSE "False"]

\* select takes the index: the table has one, and the condition is on the
\* primary key
UsesIndex(c, t, cond) == HasIndex(c, t) /\ cond.col = PkIdx(t)

\* Database.select with a condition, neither ordered nor saved: out is the
\* rows of the table returned
Select(p, proj, t, cond, distinct, m, d) ==
    LET m0 == LoadDatabase(m, d)
        L  == IsLocked(p, t, m0, d)
        no == [m |-> L.m, d |-> d, out |-> <<>>]
    IN IF L.r = "TableLocked" THEN no @@ [r |-> "TableLocked"]
       ELSE IF t \notin DOMAIN L.m.tables THEN no @@ [r |-> "KeyError"]
       ELSE IF UsesIndex(L.m, t, cond)
       THEN LET iname == IndexNameOf(L.m, t)
            IN IF iname \notin DOMAIN d.btrees
               THEN no @@ [r |-> "FileNotFoundError"]
               ELSE [m |-> L.m, d |-> d, r |-> "ok",
                     out |-> SelectWhereWithBtree(L.m.tables[t],
                                                  d.btrees[iname], proj, cond)]
       ELSE [m |-> L.m, d |-> d, r |-> "ok",
             out |-> SelectWhere(L.m.tables[t], proj, cond, distinct)]

\* Table._inner_join: the rows of the product of the live rows whose
\* columns satisfy the condition, a row of the left table before a row of
\* the right one
InnerJoin(left, right, on) ==
    LET l == LiveRows(left)
        r == LiveRows(right)
        pairs == {<<i, j>> \in (DOMAIN l) \X (DOMAIN r) :
                     Compare(l[i][on.left], on.op, r[j][on.right])}
    IN {l[pr[1]] \o r[pr[2]] : pr \in pairs}

\* Database.join with mode 'inner', not saved: out is the rows of the table
\* returned, as a set
Join(p, left, right, on, m, d) ==
    LET m0 == LoadDatabase(m, d)
        L  == IsLocked(p, left, m0, d)
        R  == IsLocked(p, right, L.m, d)
        m1 == IF L.r = "TableLocked" THEN L.m ELSE R.m
    IN IF L.r = "TableLocked" \/ R.r = "TableLocked"
       THEN [m |-> m1, d |-> d, r |-> "TableLocked", out |-> {}]
       ELSE IF {left, right} \subseteq DOMAIN m1.tables
       THEN [m |-> m1, d |-> d, r |-> "ok",
             out |-> InnerJoin(m1.tables[left], m1.tables[right], on)]
       ELSE [m |-> m1, d |-> d, r |-> "KeyError", out |-> {}]

---------------------------------------------------------------------------
(* The triggers.  The triggers table is held as the sequence of its live  *)
(* rows (trigger_name, trigger_table, action, when); its tombstones and    *)
(* its own lock, length and insert-stack records are left out.  Its row    *)
(* store is taken from section 3 of the specification: trigger_name, the   *)
(* primary key, is unique.                                                 *)

TriggerNames == {"t1", "t2"}

TriggerActions == {"insert", "update", "delete"}

TriggerWhens == {"before", "after"}

NumTriggerCols == 4

\* a count that does not look at the time of a trigger
CheckForTriggersAnyTime(c, t, action, when) ==
    Cardinality({i \in DOMAIN c.triggers :
                    c.triggers[i][2] = t /\ c.triggers[i][3] = action})

\* a count that does not look at the action of a trigger
CheckForTriggersAnyAction(c, t, action, when) ==
    Cardinality({i \in DOMAIN c.triggers :
                    c.triggers[i][2] = t /\ c.triggers[i][4] = when})

\* Database.check_for_triggers: the number of rows of the triggers table
\* with this table, action and time
CheckForTriggers(c, t, action, when) ==
    Cardinality({i \in DOMAIN c.triggers :
                    /\ c.triggers[i][2] = t
                    /\ c.triggers[i][3] = action
                    /\ c.triggers[i][4] = when})

\* the action a query is named by in the triggers table
ActionOf(op) ==
    CASE op = "insert_into"  -> "insert"
      [] op = "update_table" -> "update"
      [] op = "delete_from"  -> "delete"

\* a guard that lets every query through
MayModifyAlways(t, flag) == TRUE

\* the guard of insert_into, update_table and delete_from: the triggers
\* table is modified with the flag only
MayModify(t, flag) == (t = "triggers" /\ flag) \/ t # "triggers"

\* a query the guard turned away: a message is printed, nothing else
Rejected(m, d) ==
    [m |-> m, d |-> d, r |-> "Rejected", own |-> "-", pos |-> <<>>,
     before |-> 0, after |-> 0]

\* the result R of a query with the calls of trigger_function around it
Fired(R, before, after) ==
    [m |-> R.m, d |-> R.d, r |-> R.r, own |-> R.own, pos |-> R.pos,
     before |-> before, after |-> after]

\* a trigger row meets a condition on one of its columns
TriggerMatches(row, cond) == Compare(row[cond.col], cond.op, cond.val)

\* the body of insert_into on the triggers table: reload, the row store
\* inserts a row of four strings whose name is new, save
InsertIntoTriggers(p, row, m, d) ==
    LET m0 == LoadDatabase(m, d)
        ok == /\ Len(row) = NumTriggerCols
              /\ \A i \in DOMAIN m0.triggers : m0.triggers[i][1] # row[1]
        m1 == IF ok THEN [m0 EXCEPT !.triggers = Append(@, row)] ELSE m0
    IN [m |-> m1, d |-> SaveDatabase(m1, d),
        r |-> IF ok THEN "ok" ELSE "Aborted", own |-> "True",
        pos |-> IF ok THEN <<Len(m0.triggers)>> ELSE <<>>]

\* the body of update_table on the triggers table
UpdateTriggers(p, setcol, setval, cond, m, d) ==
    LET m0  == LoadDatabase(m, d)
        hit == {i \in DOMAIN m0.triggers : TriggerMatches(m0.triggers[i], cond)}
        m1  == [m0 EXCEPT !.triggers =
                   [i \in DOMAIN @ |->
                       IF i \in hit THEN [@[i] EXCEPT ![setcol] = setval]
                       ELSE @[i]]]
    IN [m |-> m1, d |-> SaveDatabase(m1, d), r |-> "ok", own |-> "True",
        pos |-> <<>>, changed |-> hit # {}]

\* the body of delete_from on the triggers table
DeleteFromTriggers(p, cond, m, d) ==
    LET m0  == LoadDatabase(m, d)
        hit == {i \in DOMAIN m0.triggers : TriggerMatches(m0.triggers[i], cond)}
        m1  == [m0 EXCEPT !.triggers =
                   SelectSeq(@, LAMBDA row : ~TriggerMatches(row, cond))]
    IN [m |-> m1, d |-> SaveDatabase(m1, d), r |-> "ok", own |-> "True",
        pos |-> Ascending({i - 1 : i \in hit})]

\* Database.insert_into with its flag: the guard, the triggers before the
\* query counted in the catalog as it is before the reload, the query, and
\* the triggers after it when the row store raised nothing
InsertIntoFlag(p, t, row, flag, m, d) ==
    IF ~MayModify(t, flag) THEN Rejected(m, d)
    ELSE LET k == CheckForTriggers(m, t, "insert", "before")
             R == IF t = "triggers" THEN InsertIntoTriggers(p, row, m, d)
                  ELSE InsertInto(p, t, row, m, d)
         IN Fired(R, k, IF R.r = "ok"
                        THEN CheckForTriggers(R.m, t, "insert", "after")
                        ELSE 0)

\* Database.update_table with its flag: the triggers after the query when
\* _update_rows returned true
UpdateTableFlag(p, t, setcol, setval, cond, flag, m, d) ==
    IF ~MayModify(t, flag) THEN Rejected(m, d)
    ELSE LET k == CheckForTriggers(m, t, "update", "before")
             R == IF t = "triggers"
                  THEN UpdateTriggers(p, setcol, setval, cond, m, d)
                  ELSE UpdateTable(p, t, setcol, setval, cond, m, d)
         IN Fired(R, k, IF R.r = "ok" /\ R.changed
                        THEN CheckForTriggers(R.m, t, "update", "after")
                        ELSE 0)

\* Database.delete_from with its flag: the triggers after the query when
\* _delete_where returned positions
DeleteFromFlag(p, t, cond, flag, m, d) ==
    IF ~MayModify(t, flag) THEN Rejected(m, d)
    ELSE LET k == CheckForTriggers(m, t, "delete", "before")
             R == IF t = "triggers" THEN DeleteFromTriggers(p, cond, m, d)
                  ELSE DeleteFrom(p, t, cond, m, d)
         IN Fired(R, k, IF R.r = "ok" /\ R.pos # <<>>
                        THEN CheckForTriggers(R.m, t, "delete", "after")
                        ELSE 0)

\* Database.create_trigger
CreateTrigger(p, name, t, when, action, m, d) ==
    LET m0 == LoadDatabase(m, d)
    IN IF name = "" \/ action \notin TriggerActions
          \/ when \notin TriggerWhens
          \/ t \notin DOMAIN m0.tables \/ t = "triggers"
       THEN [Rejected(m0, d) EXCEPT !.r = "Refused"]
       ELSE InsertIntoFlag(p, "triggers", <<name, t, action, when>>, TRUE,
                           m0, d)

\* Database.drop_trigger
DropTrigger(p, name, m, d) ==
    DeleteFromFlag(p, "triggers", [col |-> 1, op |-> "==", val |-> name],
                   TRUE, LoadDatabase(m, d), d)

---------------------------------------------------------------------------
(* The state *)

\* the catalog Database.__init__ creates: the meta tables and the triggers
\* table, all empty.  tables holds the rows of the tables users create,
\* length, stack, locks and indexes the records of meta_length,
\* meta_insert_stack, meta_locks and meta_indexes, triggers the live rows of
\* the triggers table.  btrees, which only the directory has, holds the
\* files of the indexes subdirectory.
EmptyCatalog ==
    [tables |-> EmptyMap, length |-> EmptyMap, stack |-> EmptyMap,
     locks |-> <<>>, indexes |-> <<>>, triggers |-> <<>>,
     btrees |-> EmptyMap]

\* what an operator call is remembered by: the caller, the operator, the
\* table, the result, the lock_ownership, of an insert the row string, and
\* the positions written; further the flag argument of a query, the number
\* of calls of trigger_function before and after the query, and the rows a
\* select returned
Call(p, op, t, r, own, arg, pos) ==
    [p |-> p, op |-> op, t |-> t, r |-> r, own |-> own, arg |-> arg,
     pos |-> pos, flag |-> FALSE, before |-> 0, after |-> 0, out |-> <<>>]

NoCall == Call(NoPid, "init", "", "", "-", <<>>, <<>>)

\* a process that runs no operator
Idle == [op |-> "idle", t |-> "", arg |-> <<>>, own |-> "-"]

\* the first process found no database and created it; the others loaded it
Init ==
    /\ disk = EmptyCatalog
    /\ mem = [p \in Procs |-> EmptyCatalog]
    /\ held = [p \in Procs |-> {}]
    /\ last = NoCall
    /\ pc = [p \in Procs |-> "idle"]
    /\ loc = [p \in Procs |-> Idle]

\* the state after process p's call of an operator returned R
Returns(p, op, t, arg, R) ==
    /\ mem' = [mem EXCEPT ![p] = R.m]
    /\ disk' = R.d
    /\ last' = Call(p, op, t, R.r, R.own, arg, R.pos)
    /\ UNCHANGED <<held, pc, loc>>

---------------------------------------------------------------------------
(* The operators as steps.  A scope sc names the processes that call, the  *)
(* tables they call on, the arguments they give and the size the tables    *)
(* grow to.                                                                *)

CreateTableAct(sc) ==
    \E p \in sc.procs, t \in sc.tables :
        LET R == CreateTable(p, t, mem[p], disk)
        IN /\ pc[p] = "idle"
           /\ Returns(p, "create_table", t, <<>>, R)

DropTableAct(sc) ==
    \E p \in sc.procs, t \in sc.tables :
        LET R == DropTable(p, t, mem[p], disk)
        IN /\ pc[p] = "idle"
           /\ Returns(p, "drop_table", t, <<>>, R)

InsertIntoAct(sc) ==
    \E p \in sc.procs, t \in sc.tables, row \in sc.rows :
        LET R == InsertInto(p, t, row, mem[p], disk)
        IN /\ pc[p] = "idle"
           /\ t \in DOMAIN R.m.tables => Len(R.m.tables[t]) <= sc.maxrows
           /\ Returns(p, "insert_into", t,
                      IF R.r = "ok" THEN row ELSE <<>>, R)

UpdateTableAct(sc) ==
    \E p \in sc.procs, t \in sc.tables, setcol \in sc.setcols,
       setval \in sc.setvals, cond \in sc.conds :
        LET R == UpdateTable(p, t, setcol, setval, cond, mem[p], disk)
        IN /\ pc[p] = "idle"
           /\ Returns(p, "update_table", t, <<>>, R)

DeleteFromAct(sc) ==
    \E p \in sc.procs, t \in sc.tables, cond \in sc.conds :
        LET R == DeleteFrom(p, t, cond, mem[p], disk)
        IN /\ pc[p] = "idle"
           /\ Returns(p, "delete_from", t, <<>>, R)

SortAct(sc) ==
    \E p \in sc.procs, t \in sc.tables, col \in sc.cols, asc \in sc.ascs :
        LET m0   == LoadDatabase(mem[p], disk)
            rows == IF t \in DOMAIN m0.tables THEN m0.tables[t] ELSE <<>>
        IN \E sorted \in SortOutcomes(rows, col, asc) :
              LET R == Sort(p, t, sorted, mem[p], disk)
              IN /\ pc[p] = "idle"
                 /\ Returns(p, "sort", t, <<>>, R)

CastAct(sc) ==
    \E p \in sc.procs, t \in sc.tables, col \in sc.cols,
       type \in CastTypes :
        LET m0 == LoadDatabase(mem[p], disk)
            R  == Cast(p, t, col, type, mem[p], disk)
        IN \* a cast to list of a column without values would change the
           \* column's type, which the model keeps int
           /\ pc[p] = "idle"
           /\ type = "list" =>
                 t \in DOMAIN m0.tables /\ LiveCount(m0.tables[t]) > 0
           /\ Returns(p, "cast", t, <<>>, R)

LockTableAct(sc) ==
    \E p \in sc.procs, t \in sc.tables :
        LET L == LockTable(p, t, mem[p], disk)
            R == [m |-> L.m, d |-> L.d, r |-> L.r, own |-> "-", pos |-> <<>>]
        IN /\ pc[p] = "idle"
           /\ Returns(p, "lock_table", t, <<>>, R)

UnlockTableAct(sc) ==
    \E p \in sc.procs, t \in sc.tables, force \in BOOLEAN :
        LET U == UnlockTable(p, t, force, mem[p], disk)
            R == [m |-> U.m, d |-> U.d, r |-> U.r, own |-> "-", pos |-> <<>>]
        IN /\ pc[p] = "idle"
           /\ Returns(p,
                      IF force THEN "unlock_table_force" ELSE "unlock_table",
                      t, <<>>, R)

\* lock_table given a Table object: whether table_name[:4] raises on it
\* lies with the Table class; either way the call ends before the records
LockTableValueAct(sc) ==
    \E p \in sc.procs, r \in {"None", "TypeError"} :
        LET L == LockTable(p, TableValue, mem[p], disk)
            R == [m |-> L.m, d |-> L.d, r |-> r, own |-> "-", pos |-> <<>>]
        IN /\ pc[p] = "idle"
           /\ Returns(p, "lock_table", TableValue, <<>>, R)

\* a call of is_locked on a table name or a Table object
IsLockedAct(sc) ==
    \E p \in sc.procs, t \in sc.tables :
        LET L == IsLocked(p, t, mem[p], disk)
            R == [m |-> L.m, d |-> disk, r |-> L.r, own |-> "-",
                  pos |-> <<>>]
        IN /\ pc[p] = "idle"
           /\ Returns(p, "is_locked", t, <<>>, R)

CreateIndexAct(sc) ==
    \E p \in sc.procs, t \in sc.tables, iname \in sc.inames :
        LET R == CreateIndex(p, iname, t, mem[p], disk)
        IN /\ pc[p] = "idle"
           /\ Returns(p, "create_index", t, <<iname>>, R)

SelectAct(sc) ==
    \E p \in sc.procs, t \in sc.tables, proj \in sc.projs,
       cond \in sc.conds, distinct \in sc.distincts :
        LET R == Select(p, proj, t, cond, distinct, mem[p], disk)
        IN /\ pc[p] = "idle"
           /\ mem' = [mem EXCEPT ![p] = R.m]
           /\ disk' = R.d
           /\ last' = [Call(p, "select", t, R.r, "-",
                            <<proj, cond, distinct>>, <<>>)
                          EXCEPT !.out = R.out]
           /\ UNCHANGED <<held, pc, loc>>

\* a join of two tables, possibly the same, on their first columns
JoinAct(sc) ==
    \E p \in sc.procs, left \in sc.tables, right \in sc.tables :
        LET on == [left |-> 1, op |-> "==", right |-> 1]
            R  == Join(p, left, right, on, mem[p], disk)
        IN /\ pc[p] = "idle"
           /\ mem' = [mem EXCEPT ![p] = R.m]
           /\ disk' = R.d
           /\ last' = [Call(p, "join", left, R.r, "-", <<right>>, <<>>)
                          EXCEPT !.out = R.out]
           /\ UNCHANGED <<held, pc, loc>>

\* the state after process p's call of a query with a flag returned R
ReturnsFired(p, op, t, arg, flag, R) ==
    /\ mem' = [mem EXCEPT ![p] = R.m]
    /\ disk' = R.d
    /\ last' = [Call(p, op, t, R.r, R.own, arg, R.pos)
                   EXCEPT !.flag = flag, !.before = R.before,
                          !.after = R.after]
    /\ UNCHANGED <<held, pc, loc>>

\* the flags a caller gives: on the triggers table both, elsewhere, where
\* the flag is not looked at, the default
Flags(t) == IF t = "triggers" THEN BOOLEAN ELSE {FALSE}

InsertIntoFlagAct(sc) ==
    \E p \in sc.procs, t \in sc.tables \cup {"triggers"} :
      \E flag \in Flags(t),
         row \in IF t = "triggers" THEN sc.trows ELSE sc.rows :
        LET R == InsertIntoFlag(p, t, row, flag, mem[p], disk)
        IN /\ pc[p] = "idle"
           /\ t \in DOMAIN R.m.tables => Len(R.m.tables[t]) <= sc.maxrows
           /\ ReturnsFired(p, "insert_into", t,
                           IF R.r = "ok" THEN row ELSE <<>>, flag, R)

UpdateTableFlagAct(sc) ==
    \E p \in sc.procs, t \in sc.tables \cup {"triggers"} :
      \E flag \in Flags(t),
         setcol \in IF t = "triggers" THEN sc.tsetcols ELSE sc.setcols,
         setval \in IF t = "triggers" THEN sc.tsetvals ELSE sc.setvals,
         cond \in IF t = "triggers" THEN sc.tconds ELSE sc.conds :
        LET R == UpdateTableFlag(p, t, setcol, setval, cond, flag,
                                 mem[p], disk)
        IN /\ pc[p] = "idle"
           /\ ReturnsFired(p, "update_table", t, <<cond>>, flag, R)

DeleteFromFlagAct(sc) ==
    \E p \in sc.procs, t \in sc.tables \cup {"triggers"} :
      \E flag \in Flags(t),
         cond \in IF t = "triggers" THEN sc.tconds ELSE sc.conds :
        LET R == DeleteFromFlag(p, t, cond, flag, mem[p], disk)
        IN /\ pc[p] = "idle"
           /\ ReturnsFired(p, "delete_from", t, <<cond>>, flag, R)

\* an argument list is (trigger_name, table_name, when, action)
CreateTriggerAct(sc) ==
    \E p \in sc.procs, a \in sc.targs :
        LET R == CreateTrigger(p, a[1], a[2], a[3], a[4], mem[p], disk)
        IN /\ pc[p] = "idle"
           /\ ReturnsFired(p, "create_trigger", a[2], <<>>, TRUE, R)

DropTriggerAct(sc) ==
    \E p \in sc.procs, name \in sc.tnames :
        LET R == DropTrigger(p, name, mem[p], disk)
        IN /\ pc[p] = "idle"
           /\ ReturnsFired(p, "drop_trigger", "triggers", <<name>>, TRUE, R)

---------------------------------------------------------------------------
(* Spec: one process, one table, every argument *)

Solo ==
    [procs |-> {1}, tables |-> {"x"}, rows |-> RowInputs,
     setcols |-> 1..NumCols, setvals |-> Fields, conds |-> Conditions,
     cols |-> 1..NumCols, ascs |-> BOOLEAN, maxrows |-> MaxRows]

Next ==
    \/ CreateTableAct(Solo)
    \/ DropTableAct(Solo)
    \/ InsertIntoAct(Solo)
    \/ UpdateTableAct(Solo)
    \/ DeleteFromAct(Solo)
    \/ SortAct(Solo)
    \/ CastAct(Solo)
    \/ LockTableAct(Solo)
    \/ UnlockTableAct(Solo)

Spec == Init /\ [][Next]_vars

---------------------------------------------------------------------------
(* SpecPeers: two processes, one table, few arguments *)

Peers ==
    [procs |-> Procs, tables |-> {"x"},
     rows |-> {<<"1", "1">>},
     setcols |-> {2}, setvals |-> {"0"},
     conds |-> {[col |-> 1, op |-> "==", val |-> 1]},
     cols |-> {1}, ascs |-> {FALSE}, maxrows |-> MaxRowsPeers]

NextPeers ==
    \/ CreateTableAct(Peers)
    \/ DropTableAct(Peers)
    \/ InsertIntoAct(Peers)
    \/ UpdateTableAct(Peers)
    \/ DeleteFromAct(Peers)
    \/ SortAct(Peers)
    \/ CastAct(Peers)
    \/ LockTableAct(Peers)
    \/ UnlockTableAct(Peers)

SpecPeers == Init /\ [][NextPeers]_vars

---------------------------------------------------------------------------
(* SpecIndexed: one process, table x with the primary key a *)

Indexed ==
    [procs |-> {1}, tables |-> {"x"},
     rows |-> {<<"0", "1">>},
     setcols |-> {1}, setvals |-> {"1"},
     conds |-> {[col |-> 1, op |-> "==", val |-> 0],
                [col |-> 1, op |-> ">=", val |-> 0]},
     cols |-> {1}, ascs |-> {FALSE},
     inames |-> IndexNames,
     projs |-> {pr \in Projections : pr.cols # <<1>>},
     distincts |-> BOOLEAN, maxrows |-> MaxRowsIndexed]

NextIndexed ==
    \/ CreateTableAct(Indexed)
    \/ InsertIntoAct(Indexed)
    \/ UpdateTableAct(Indexed)
    \/ DeleteFromAct(Indexed)
    \/ CreateIndexAct(Indexed)
    \/ SelectAct(Indexed)

SpecIndexed == Init /\ [][NextIndexed]_vars

---------------------------------------------------------------------------
(* SpecShared: two processes that read tables x and y; rows are written  *)
(* to x only                                                              *)

Shared ==
    [procs |-> Procs, tables |-> {"x"},
     rows |-> {<<"0", "1">>},
     conds |-> {[col |-> 1, op |-> "==", val |-> 0]},
     inames |-> {"i"},
     projs |-> {pr \in Projections : pr.all},
     distincts |-> {FALSE}, maxrows |-> MaxRowsShared]

\* the same, for the calls that may name y as well
SharedBoth == [Shared EXCEPT !.tables = {"x", "y"}]

NextShared ==
    \/ CreateTableAct(SharedBoth)
    \/ InsertIntoAct(Shared)
    \/ LockTableAct(SharedBoth)
    \/ SelectAct(Shared)
    \/ JoinAct(SharedBoth)

SpecShared == Init /\ [][NextShared]_vars

---------------------------------------------------------------------------
(* SpecRegistry: two processes that create indexes; table x with the      *)
(* primary key a and table y without one, both without rows               *)

Registry ==
    [procs |-> Procs, tables |-> {"x", "y"},
     conds |-> {[col |-> 1, op |-> "==", val |-> 0]},
     inames |-> IndexNames,
     projs |-> {pr \in Projections : pr.all},
     distincts |-> {FALSE}]

NextRegistry ==
    \/ CreateTableAct(Registry)
    \/ CreateIndexAct(Registry)
    \/ SelectAct(Registry)

SpecRegistry == Init /\ [][NextRegistry]_vars

---------------------------------------------------------------------------
(* SpecTriggers: one process, table x and the triggers table; triggers are *)
(* created and dropped, rows are written with and without the flag, and   *)
(* tables are locked and dropped                                           *)

Triggered ==
    [procs |-> {1}, tables |-> {"x"},
     rows |-> {<<"0", "1">>, <<"q", "1">>},
     setcols |-> {2}, setvals |-> {"0"},
     conds |-> {[col |-> 1, op |-> "==", val |-> 0]},
     trows |-> {<<"t2", "triggers", "insert", "before">>},
     tsetcols |-> {4}, tsetvals |-> {"after"},
     tconds |-> {[col |-> 1, op |-> "==", val |-> "t1"]},
     tnames |-> TriggerNames,
     targs |-> (TriggerNames \X {"x"} \X TriggerWhens \X TriggerActions)
               \cup {<<"", "x", "after", "insert">>,
                      <<"t1", "x", "instead", "insert">>,
                      <<"t1", "x", "after", "select">>,
                      <<"t1", "triggers", "after", "insert">>},
     maxrows |-> MaxRowsTriggers]

TriggeredBoth == [Triggered EXCEPT !.tables = {"x", "triggers"}]

NextTriggers ==
    \/ CreateTableAct(Triggered)
    \/ DropTableAct(TriggeredBoth)
    \/ LockTableAct(Triggered)
    \/ InsertIntoFlagAct(Triggered)
    \/ UpdateTableFlagAct(Triggered)
    \/ DeleteFromFlagAct(Triggered)
    \/ CreateTriggerAct(Triggered)
    \/ DropTriggerAct(Triggered)

SpecTriggers == Init /\ [][NextTriggers]_vars

---------------------------------------------------------------------------
(* SpecExempt: two processes, table x and a table whose name begins with   *)
(* meta; locks are asked for and looked up on them, on a meta table of the *)
(* catalog and on a Table object                                           *)

Exempt ==
    [procs |-> Procs, tables |-> {"x"} \cup MetaPrefixedNames,
     rows |-> {<<"1", "1">>},
     conds |-> {[col |-> 1, op |-> "==", val |-> 1]},
     maxrows |-> MaxRowsExempt]

ExemptTargets ==
    [Exempt EXCEPT !.tables = @ \cup {"meta_locks", TableValue}]

ExemptNames == [Exempt EXCEPT !.tables = @ \cup {"meta_locks"}]

NextExempt ==
    \/ CreateTableAct(Exempt)
    \/ InsertIntoAct(Exempt)
    \/ LockTableAct(ExemptNames)
    \/ LockTableValueAct(Exempt)
    \/ UnlockTableAct(Exempt)
    \/ IsLockedAct(ExemptTargets)

SpecExempt == Init /\ [][NextExempt]_vars

---------------------------------------------------------------------------
(* SpecOrder: insert_into, update_table and delete_from of one process on  *)
(* table x, each cut into the change in memory, the release with the save, *)
(* and the triggers after the query, in the order of the statements.       *)
(* loc[p] is the call process p is in, pc[p] the part it is to do next.    *)

\* a query up to the change of the table in memory: load_database,
\* lock_table and the call of the row store.  arg is the row of an insert,
\* the column, the value and the condition of an update, the condition of a
\* delete; changed is what decides on the triggers after the query.
QueryMutate(p, op, t, arg, m, d) ==
    LET m0 == LoadDatabase(m, d)
        L  == LockTable(p, t, m0, d)
        stop(r) == [m |-> L.m, d |-> L.d, r |-> r, own |-> L.r,
                    changed |-> FALSE, deleted |-> <<>>]
    IN IF L.r = "TableLocked" THEN stop("TableLocked")
       ELSE IF op = "insert_into"
       THEN IF t \notin DOMAIN L.m.stack THEN stop("IndexError")
            ELSE LET I == InsertRows(t, arg[1], L.m)
                 IN [m |-> I.m, d |-> L.d,
                     r |-> IF I.ok THEN "ok" ELSE "Aborted", own |-> L.r,
                     changed |-> I.ok, deleted |-> <<>>]
       ELSE IF t \notin DOMAIN L.m.tables THEN stop("KeyError")
       ELSE IF op = "update_table"
       THEN LET upd == TableUpdateRows(L.m.tables[t], arg[1], arg[2], arg[3])
            IN IF ~upd.ok THEN stop("CastError")
               ELSE [m |-> [L.m EXCEPT !.tables[t] = upd.rows], d |-> L.d,
                     r |-> "ok", own |-> L.r, changed |-> upd.changed,
                     deleted |-> <<>>]
       ELSE LET del == TableDeleteWhere(L.m.tables[t], arg[1])
            IN [m |-> [L.m EXCEPT !.tables[t] = del.rows], d |-> L.d,
                r |-> "ok", own |-> L.r, changed |-> del.deleted # <<>>,
                deleted |-> del.deleted]

\* a query from `if lock_ownership` to its last save_database
QueryCommit(p, op, t, own, deleted, m, d) ==
    LET U  == ReleaseIfOwned(p, t, own, m, d)
        m2 == Update(U.m)
        d2 == SaveDatabase(m2, U.d)
    IN IF op = "delete_from" /\ ~IsMeta(t)
       THEN LET m3 == AddToInsertStack(m2, t, deleted)
            IN [m |-> m3, d |-> SaveDatabase(m3, d2)]
       ELSE [m |-> m2, d |-> d2]

\* the parts of a query after the change in memory, in the order of its
\* statements: update_table looks for its triggers before it releases and
\* saves, insert_into and delete_from after
PartsOf(op) ==
    IF op = "update_table" THEN <<"after_triggers", "commit">>
    ELSE <<"commit", "after_triggers">>

\* the part that follows part k, idle after the last
PartAfter(op, k) ==
    IF k < Len(PartsOf(op)) THEN PartsOf(op)[k + 1] ELSE "idle"

\* the results with which a query ends at once: an exception outside a try
QueryRaised == {"TableLocked", "IndexError", "KeyError", "CastError"}

InOrder ==
    [procs |-> {1}, tables |-> {"x"},
     calls |-> {[op |-> "insert_into", arg |-> <<<<"1", "1">>>>],
                [op |-> "insert_into", arg |-> <<<<"q", "1">>>>],
                [op |-> "update_table",
                 arg |-> <<2, "0", [col |-> 1, op |-> "==", val |-> 1]>>],
                [op |-> "delete_from",
                 arg |-> <<[col |-> 1, op |-> "==", val |-> 1]>>]},
     targs |-> {"t1"} \X {"x"} \X {"after"} \X TriggerActions,
     maxrows |-> MaxRowsOrder]

OrderMutate(sc) ==
    \E p \in sc.procs, t \in sc.tables, call \in sc.calls :
        LET R == QueryMutate(p, call.op, t, call.arg, mem[p], disk)
        IN /\ pc[p] = "idle"
           /\ t \in DOMAIN R.m.tables => Len(R.m.tables[t]) <= sc.maxrows
           /\ mem' = [mem EXCEPT ![p] = R.m]
           /\ disk' = R.d
           /\ UNCHANGED held
           /\ IF R.r \in QueryRaised
              THEN /\ last' = Call(p, call.op, t, R.r, R.own, <<>>, <<>>)
                   /\ UNCHANGED <<pc, loc>>
              ELSE /\ pc' = [pc EXCEPT ![p] = PartAfter(call.op, 0)]
                   /\ loc' = [loc EXCEPT ![p] =
                                [op |-> call.op, t |-> t, arg |-> R.deleted,
                                 own |-> R.own, changed |-> R.changed,
                                 part |-> 1]]
                   /\ last' = Call(p, "mutate", t, R.r, R.own, <<>>, <<>>)

OrderCommit(sc) ==
    \E p \in sc.procs :
        LET c == loc[p]
            R == QueryCommit(p, c.op, c.t, c.own, c.arg, mem[p], disk)
        IN /\ pc[p] = "commit"
           /\ mem' = [mem EXCEPT ![p] = R.m]
           /\ disk' = R.d
           /\ pc' = [pc EXCEPT ![p] = PartAfter(c.op, c.part)]
           /\ loc' = [loc EXCEPT ![p] =
                        IF PartAfter(c.op, c.part) = "idle" THEN Idle
                        ELSE [c EXCEPT !.part = @ + 1]]
           /\ last' = Call(p, "commit", c.t, "", c.own, <<>>, <<>>)
           /\ UNCHANGED held

\* the calls of trigger_function after the query
OrderAfterTriggers(sc) ==
    \E p \in sc.procs :
        LET c == loc[p]
            n == IF c.changed
                 THEN CheckForTriggers(mem[p], c.t, ActionOf(c.op), "after")
                 ELSE 0
        IN /\ pc[p] = "after_triggers"
           /\ pc' = [pc EXCEPT ![p] = PartAfter(c.op, c.part)]
           /\ loc' = [loc EXCEPT ![p] =
                        IF PartAfter(c.op, c.part) = "idle" THEN Idle
                        ELSE [c EXCEPT !.part = @ + 1]]
           /\ last' = [Call(p, "after_triggers", c.t, "", c.own, <<>>, <<>>)
                          EXCEPT !.after = n]
           /\ UNCHANGED <<mem, disk, held>>

NextOrder ==
    \/ CreateTableAct(InOrder)
    \/ CreateTriggerAct(InOrder)
    \/ LockTableAct(InOrder)
    \/ OrderMutate(InOrder)
    \/ OrderCommit(InOrder)
    \/ OrderAfterTriggers(InOrder)

SpecOrder == Init /\ [][NextOrder]_vars

---------------------------------------------------------------------------
(* SpecIO: lock_table, unlock_table and insert_into as the sequence of     *)
(* their file reads and writes.  A step is one read or one write with the  *)
(* work in memory that leads to it; load_database and save_database, which *)
(* go through all the files, are one step each.  pc[p] is the read or      *)
(* write process p is to do next, loc[p] the call it is in.                *)

\* two tables, created empty, known to both processes
InitIO ==
    LET c == Update([EmptyCatalog EXCEPT
                        !.tables = [t \in TableNames |-> <<>>]])
    IN /\ disk = c
       /\ mem = [p \in Procs |-> c]
       /\ held = [p \in Procs |-> {}]
       /\ last = NoCall
       /\ pc = [p \in Procs |-> "idle"]
       /\ loc = [p \in Procs |-> Idle]

\* process p has done the step `step` of its call on t
Did(p, step, t, own) ==
    last' = Call(p, step, t, "", own, <<>>, <<>>)

\* process p is back from its call, with result r
Back(p, step, t, r, own) ==
    /\ pc' = [pc EXCEPT ![p] = "idle"]
    /\ loc' = [loc EXCEPT ![p] = Idle]
    /\ last' = Call(p, step, t, r, own, <<>>, <<>>)

\* lock_table(t): the exemption, the read of meta_locks.pkl and the check
IOLockRead ==
    \E p \in Procs, t \in TableNames :
        LET c == LockCheck(p, t, mem[p], disk)
        IN /\ pc[p] = "idle"
           /\ mem' = [mem EXCEPT ![p] = c.m]
           /\ UNCHANGED <<disk, held>>
           /\ IF c.r = "True"
              THEN /\ pc' = [pc EXCEPT ![p] = "lock_write"]
                   /\ loc' = [loc EXCEPT ![p] =
                                [op |-> "lock_table", t |-> t, arg |-> <<>>,
                                 own |-> "-"]]
                   /\ Did(p, "lock_read", t, "-")
              ELSE Back(p, "lock_table", t, c.r, "-")

\* lock_table(t): _save_locks, return True
IOLockWrite ==
    \E p \in Procs :
        /\ pc[p] = "lock_write"
        /\ disk' = SaveLocks(mem[p], disk)
        /\ held' = [held EXCEPT ![p] = @ \cup {loc[p].t}]
        /\ Back(p, "lock_table", loc[p].t, "True", "-")
        /\ UNCHANGED mem

\* unlock_table(t): the checks in memory, the delete and _save_locks
IOUnlock ==
    \E p \in Procs, t \in TableNames :
        LET U == UnlockTable(p, t, FALSE, mem[p], disk)
        IN /\ pc[p] = "idle"
           /\ mem' = [mem EXCEPT ![p] = U.m]
           /\ disk' = U.d
           /\ held' = IF U.r = "ok" THEN [held EXCEPT ![p] = @ \ {t}]
                      ELSE held
           /\ Back(p, "unlock_table", t, U.r, "-")

\* insert_into(t, row): load_database
IOInsertLoad ==
    \E p \in Procs, t \in TableNames, row \in {<<"1", "1">>} :
        LET m0 == LoadDatabase(mem[p], disk)
        IN /\ pc[p] = "idle"
           /\ t \in DOMAIN m0.tables /\ Len(m0.tables[t]) < MaxRowsIO
           /\ mem' = [mem EXCEPT ![p] = m0]
           /\ pc' = [pc EXCEPT ![p] = "insert_lock"]
           /\ loc' = [loc EXCEPT ![p] =
                        [op |-> "insert_into", t |-> t, arg |-> row,
                         own |-> "-"]]
           /\ Did(p, "insert_load", t, "-")
           /\ UNCHANGED <<disk, held>>

\* insert_into: lock_table up to its write
IOInsertLock ==
    \E p \in Procs :
        LET t == loc[p].t
            c == LockCheck(p, t, mem[p], disk)
        IN /\ pc[p] = "insert_lock"
           /\ mem' = [mem EXCEPT ![p] = c.m]
           /\ UNCHANGED <<disk, held>>
           /\ IF c.r = "TableLocked"
              THEN Back(p, "insert_into", t, "TableLocked", "-")
              ELSE /\ pc' = [pc EXCEPT ![p] =
                               IF c.r = "True" THEN "insert_lock_write"
                               ELSE "insert_save"]
                   /\ loc' = [loc EXCEPT ![p].own = c.r]
                   /\ Did(p, "insert_lock_read", t, c.r)

\* insert_into: the _save_locks of lock_table
IOInsertLockWrite ==
    \E p \in Procs :
        /\ pc[p] = "insert_lock_write"
        /\ disk' = SaveLocks(mem[p], disk)
        /\ held' = [held EXCEPT ![p] = @ \cup {loc[p].t}]
        /\ pc' = [pc EXCEPT ![p] = "insert_unlock"]
        /\ Did(p, "insert_lock_write", loc[p].t, "True")
        /\ UNCHANGED <<mem, loc>>

\* insert_into with lock_ownership: the insert in memory, then unlock_table
\* with its _save_locks
IOInsertUnlock ==
    \E p \in Procs :
        LET t == loc[p].t
        IN /\ pc[p] = "insert_unlock"
           /\ IF t \notin DOMAIN mem[p].stack
              THEN /\ Back(p, "insert_into", t, "IndexError", "True")
                   /\ UNCHANGED <<mem, disk, held>>
              ELSE LET I == InsertRows(t, loc[p].arg, mem[p])
                       U == UnlockTable(p, t, FALSE, I.m, disk)
                   IN /\ mem' = [mem EXCEPT ![p] = U.m]
                      /\ disk' = U.d
                      /\ held' = [held EXCEPT ![p] = @ \ {t}]
                      /\ pc' = [pc EXCEPT ![p] = "insert_save"]
                      /\ loc' = [loc EXCEPT ![p].arg = <<>>]
                      /\ Did(p, "insert_unlock", t, "True")

\* insert_into: _update and save_database; without lock_ownership the
\* insert in memory comes here, no file being touched before
IOInsertSave ==
    \E p \in Procs :
        LET t == loc[p].t
        IN /\ pc[p] = "insert_save"
           /\ UNCHANGED held
           /\ IF loc[p].arg # <<>> /\ t \notin DOMAIN mem[p].stack
              THEN /\ Back(p, "insert_into", t, "IndexError", loc[p].own)
                   /\ UNCHANGED <<mem, disk>>
              ELSE LET m2 == IF loc[p].arg # <<>>
                             THEN InsertRows(t, loc[p].arg, mem[p]).m
                             ELSE mem[p]
                       m3 == Update(m2)
                   IN /\ mem' = [mem EXCEPT ![p] = m3]
                      /\ disk' = SaveDatabase(m3, disk)
                      /\ Back(p, "insert_into", t, "ok", loc[p].own)

\* insert_into or delete_from: load_database, the first read of the files
HandOffLoad ==
    \E p \in Procs, t \in {"x"},
       op \in {"insert_into", "delete_from"} :
      \E arg \in IF op = "insert_into"
                 THEN {<<"1", "1">>, <<"0", "1">>}
                 ELSE {[col |-> 1, op |-> "==", val |-> 1]} :
        LET m0 == LoadDatabase(mem[p], disk)
        IN /\ pc[p] = "idle"
           /\ op = "insert_into" => Len(m0.tables[t]) < MaxRowsHandOff
           /\ mem' = [mem EXCEPT ![p] = m0]
           /\ pc' = [pc EXCEPT ![p] = "loaded"]
           /\ loc' = [loc EXCEPT ![p] =
                        [op |-> op, t |-> t, arg |-> <<arg>>, own |-> "-"]]
           /\ Did(p, "load", t, "-")
           /\ UNCHANGED <<disk, held>>

\* insert_into or delete_from from lock_table to the last save_database,
\* without a step of another process in between
HandOffRest ==
    \E p \in Procs :
        LET t == loc[p].t
            R == IF loc[p].op = "insert_into"
                 THEN InsertIntoLoaded(p, t, loc[p].arg[1], mem[p], disk)
                 ELSE DeleteFromLoaded(p, t, loc[p].arg[1], mem[p], disk)
        IN /\ pc[p] = "loaded"
           /\ mem' = [mem EXCEPT ![p] = R.m]
           /\ disk' = R.d
           /\ pc' = [pc EXCEPT ![p] = "idle"]
           /\ loc' = [loc EXCEPT ![p] = Idle]
           /\ last' = Call(p, loc[p].op, t, R.r, R.own, loc[p].arg, R.pos)
           /\ UNCHANGED held

NextHandOff ==
    \/ HandOffLoad
    \/ HandOffRest

\* SpecHandOff: the calls of two processes on table x, cut between
\* load_database and lock_table only: no lock is taken before the lock of
\* the call before it is released
SpecHandOff == InitIO /\ [][NextHandOff]_vars

NextIO ==
    \/ IOLockRead
    \/ IOLockWrite
    \/ IOUnlock
    \/ IOInsertLoad
    \/ IOInsertLock
    \/ IOInsertLockWrite
    \/ IOInsertUnlock
    \/ IOInsertSave

SpecIO == InitIO /\ [][NextIO]_vars

---------------------------------------------------------------------------
(* Claims about the row bookkeeping of one process (Spec) *)

\* the operators that mutate the rows of a table under its lock
RowOperators == {"insert_into", "update_table", "delete_from", "sort", "cast"}

\* the row a row string is cast to
CastRow(row) == [i \in 1..NumCols |-> CastInt(row[i])]

\* C1: after every operator, for every table that is no meta table, the
\* length record of the table equals the number of its row slots that are
\* not tombstones, whatever the rows hold.
C1_LengthIsLiveCount ==
    \A t \in DOMAIN disk.tables :
        t \in DOMAIN disk.length /\ disk.length[t] = LiveCount(disk.tables[t])

\* every position of the insert stack of t is the position of a tombstone
\* of t, and none is there twice
StackSound(c, t) ==
    (t \in DOMAIN c.tables /\ t \in DOMAIN c.stack) =>
        LET st == c.stack[t]
        IN /\ \A i \in DOMAIN st :
                 st[i] + 1 \in DOMAIN c.tables[t]
                 /\ c.tables[t][st[i] + 1] = Tombstone
           /\ \A i, j \in DOMAIN st : st[i] = st[j] => i = j

\* C2: insert, delete, update, sort and cast each leave the insert stack of
\* their table holding positions of tombstoned slots only, each once: from a
\* new table on, every sequence of them keeps the stack so.
C2_StackHoldsTombstones ==
    [][(last'.op \in RowOperators /\ StackSound(disk, last'.t))
          => StackSound(disk', last'.t)]_vars

\* C3: a successful insert with a non-empty insert stack writes the new row
\* at the position pushed last and takes exactly that position off the
\* stack; with an empty stack it appends the row.  After a delete of the
\* row at position p, the next insert writes its row at p.
C3_InsertIsLIFO ==
    [][(last'.op = "insert_into" /\ last'.r = "ok") =>
          LET t     == last'.t
              c     == LoadDatabase(mem[last'.p], disk)
              rows  == c.tables[t]
              stack == c.stack[t]
              new   == CastRow(last'.arg)
          IN /\ IF stack # <<>>
                THEN /\ disk'.tables[t] =
                            [rows EXCEPT ![stack[Len(stack)] + 1] = new]
                     /\ disk'.stack[t] = SubSeq(stack, 1, Len(stack) - 1)
                ELSE /\ disk'.tables[t] = rows \o <<new>>
                     /\ disk'.stack[t] = <<>>
             /\ (last.op = "delete_from" /\ last.t = t /\ last.r = "ok"
                 /\ last.p = last'.p /\ Len(last.pos) = 1)
                   => /\ last'.pos = last.pos
                      /\ disk'.tables[t][last.pos[1] + 1] = new]_vars

\* an insert has written its row into a slot that is not the last one: it
\* took the position from the insert stack
C3_Witness ==
    /\ last.op = "insert_into" /\ last.r = "ok"
    /\ last.pos[1] + 1 < Len(disk.tables[last.t])

\* the persisted lock records of table t
LockRecords(c, t) == SelectSeq(c.locks, LAMBDA r : r.table_name = t)

\* C7: an insert, update, delete, sort or cast that acquired the lock of
\* its table has removed the lock record by the time it returns or fails.
C7_AcquiredLockIsReleased ==
    (last.op \in RowOperators /\ last.own = "True")
        => LockRecords(disk, last.t) = <<>>

\* C8: when the caller owns the lock of the table as an operator starts,
\* the operator's lock_table reports False, no second record is added, and
\* the record of the caller is still there when the operator is over.
C8_OwnedLockIsKept ==
    [][(last'.op \in RowOperators /\ LockHolder(disk, last'.t) = last'.p) =>
          /\ last'.own = "False"
          /\ LockRecords(disk', last'.t) = <<LockRecord(last'.t, last'.p)>>]_vars

\* an operator has run on a table its caller had locked before
C8_Witness ==
    /\ last.op \in RowOperators /\ last.own = "False" /\ last.r = "ok"
    /\ LockRecords(disk, last.t) = <<LockRecord(last.t, last.p)>>

---------------------------------------------------------------------------
(* Claims about two processes whose calls alternate (SpecPeers) *)

\* the persisted lock record of table t names a process other than p
OtherHolds(t, p) == LockHolder(disk, t) \notin {NoPid, p}

C9_LockedOperatorChangesNothing ==
    [][(last'.op \in RowOperators \cup {"drop_table"}
        /\ last'.t \in DOMAIN disk.tables
        /\ OtherHolds(last'.t, last'.p)) =>
          /\ last'.r = "TableLocked"
          /\ disk' = disk]_vars

\* an operator has failed with TableLocked on a table that has a row, an
\* insert stack record and the lock record of the other process
C9_Witness ==
    /\ last.op \in RowOperators \cup {"drop_table"}
    /\ last.r = "TableLocked"
    /\ last.t \in DOMAIN disk.tables /\ disk.tables[last.t] # <<>>
    /\ OtherHolds(last.t, last.p)

\* C10: unlock_table without force, called on a table of the caller's
\* catalog: when the persisted lock record names another process the call
\* raises NotOwner and the record stays; when no record is persisted for
\* the table the call changes no lock record.
C10_ReleaseByOwnerOnly ==
    [][(last'.op = "unlock_table"
        /\ last'.t \in DOMAIN mem[last'.p].tables) =>
          /\ OtherHolds(last'.t, last'.p)
                => /\ last'.r = "NotOwner"
                   /\ LockHolder(disk', last'.t) = LockHolder(disk, last'.t)
          /\ LockRecords(disk, last'.t) = <<>>
                => disk'.locks = disk.locks]_vars

---------------------------------------------------------------------------
(* Claims about every interleaving of the file reads and writes (SpecIO) *)

\* the processes that have acquired table t and not released it
Holders(t) == {p \in Procs : t \in held[p]}

\* C4: at no time have two processes acquired the lock of the same table
\* without one of them having released it.
C4_MutualExclusion ==
    \A t \in TableNames : Cardinality(Holders(t)) <= 1

\* C5: while process A, and no other, has acquired the lock of table X and
\* not released it, no step of a call of another process changes the
\* persisted rows of X, the calls on another table Y included: stated here
\* for the calls on another table.
C5_RowsOfLockedTableStay ==
    [][\A t \in TableNames, p \in Procs :
          (Holders(t) = {p} /\ t \in held'[p]
           /\ last'.p # p /\ last'.t # t)
              => disk'.tables[t] = disk.tables[t]]_vars

---------------------------------------------------------------------------
(* Claims about the index and the select (SpecIndexed) *)

\* the elements of a sequence
Range(s) == {s[i] : i \in DOMAIN s}

\* the table t as the call that led to last' found it after its reload
Loaded(t) == LoadDatabase(mem[last'.p], disk).tables[t]

\* C11: when an index is registered for the table, a select with an
\* equality condition on the primary key returns the same set of rows as
\* the full scan of the table with the same condition.
C11_IndexSelectIsScan ==
    [][(last'.op = "select" /\ last'.r = "ok"
        /\ last'.arg[2].op = "==" /\ last'.arg[2].col = PkIdx(last'.t)
        /\ HasIndex(disk, last'.t)) =>
          Range(last'.out) =
              Range(SelectWhere(Loaded(last'.t), last'.arg[1], last'.arg[2],
                                last'.arg[3]))]_vars

\* C12: right after create_index succeeded, the persisted B-tree of the
\* index holds one entry (key, position) for each live row of the table,
\* the key being the row's primary key, and no entry for a tombstone.
C12_IndexHoldsLiveRows ==
    [][(last'.op = "create_index" /\ last'.r = "ok") =>
          LET rows == disk'.tables[last'.t]
          IN disk'.btrees[last'.arg[1]] =
                {[key |-> rows[i][PkIdx(last'.t)], pos |-> i - 1] :
                    i \in {j \in DOMAIN rows : IsLive(rows[j])}}]_vars

\* C17: the index registry never holds more than one entry for a table.
C17_OneIndexPerTable ==
    \A t \in TableNames :
        Cardinality({i \in DOMAIN disk.indexes :
                        disk.indexes[i].table_name = t}) <= 1

\* no two live rows have the same value in column col
KeysDiffer(rows, col) ==
    \A i, j \in DOMAIN rows :
        (IsLive(rows[i]) /\ IsLive(rows[j]) /\ rows[i][col] = rows[j][col])
            => i = j

\* C20: a select with distinct and columns other than '*' returns no two
\* rows alike, by full scan or by the index; with the columns '*' it
\* returns what it returns without distinct.  Stated here for tables whose
\* rows differ in the primary key.
C20_DistinctRows ==
    [][(last'.op = "select" /\ last'.r = "ok" /\ last'.arg[3]
        /\ KeysDiffer(Loaded(last'.t), PkIdx(last'.t))) =>
          IF last'.arg[1].all
          THEN last'.out =
                  Select(last'.p, last'.arg[1], last'.t, last'.arg[2], FALSE,
                         mem[last'.p], disk).out
          ELSE \A i, j \in DOMAIN last'.out :
                  last'.out[i] = last'.out[j] => i = j]_vars

---------------------------------------------------------------------------
(* Claims about two processes that create indexes (SpecRegistry) *)

\* the index name is in the persisted registry
Registered(iname) ==
    \E i \in DOMAIN disk.indexes : disk.indexes[i].index_name = iname

\* C18: create_index on a table of the caller's catalog that has no
\* primary key fails with NoPrimaryKey, and create_index with an index
\* name that is registered fails with DuplicateIndex; either way the
\* registry and the persisted B-trees stay as they were.
C18_CreateIndexFails ==
    [][(last'.op = "create_index"
        /\ last'.t \in DOMAIN mem[last'.p].tables) =>
          /\ PkIdx(last'.t) = 0
                => /\ last'.r = "NoPrimaryKey"
                   /\ disk'.indexes = disk.indexes
                   /\ disk'.btrees = disk.btrees
          /\ (PkIdx(last'.t) # 0 /\ Registered(last'.arg[1]))
                => /\ last'.r = "DuplicateIndex"
                   /\ disk'.indexes = disk.indexes
                   /\ disk'.btrees = disk.btrees]_vars

---------------------------------------------------------------------------
(* Claims about two processes that read (SpecShared) *)

\* C19: a select on a table whose persisted lock record names another
\* process, and a join with such a table on either side, raises, returns
\* no row and changes no file; a select on a persisted table without a
\* lock record, or with the caller's, returns the rows of the table that
\* satisfy the condition.
C19_LockedSelectAborts ==
    [][/\ last'.op = "select" =>
             IF OtherHolds(last'.t, last'.p)
             THEN /\ last'.r = "TableLocked" /\ last'.out = <<>>
                  /\ disk' = disk
             ELSE last'.t \in DOMAIN disk.tables =>
                     /\ last'.r = "ok"
                     /\ last'.out =
                           SelectWhere(disk.tables[last'.t], last'.arg[1],
                                       last'.arg[2], last'.arg[3])
                     /\ disk' = disk
       /\ (last'.op = "join"
           /\ (OtherHolds(last'.t, last'.p)
               \/ OtherHolds(last'.arg[1], last'.p)))
             => /\ last'.r = "TableLocked" /\ last'.out = {}
                /\ disk' = disk]_vars

\* a select has raised on a table that has a row and the lock record of
\* the other process
C19_Witness ==
    /\ last.op = "select" /\ last.r = "TableLocked"
    /\ last.t \in DOMAIN disk.tables /\ disk.tables[last.t] # <<>>
    /\ OtherHolds(last.t, last.p)

---------------------------------------------------------------------------
(* Claims about the triggers and the dropped tables (SpecTriggers) *)

\* the triggers the persisted triggers table c.triggers registers for a
\* table, an action and a time
Matching(c, t, action, when) ==
    {i \in DOMAIN c.triggers :
        SubSeq(c.triggers[i], 2, NumTriggerCols) = <<t, action, when>>}

\* C13: an insert into a table that the row store accepted is followed by
\* as many calls of trigger_function as the triggers table registers
\* triggers (table, insert, after); an insert the row store refused for a
\* schema violation is followed by none.
C13_AfterInsertNotifications ==
    [][last'.op = "insert_into" =>
          /\ last'.r = "ok" =>
                last'.after =
                   Cardinality(Matching(disk', last'.t, "insert", "after"))
          /\ last'.r = "Aborted" => last'.after = 0]_vars

\* an insert into x was accepted and followed by two notifications
C13_Witness ==
    /\ last.op = "insert_into" /\ last.t = "x" /\ last.r = "ok"
    /\ last.after = 2
    /\ Cardinality(Matching(disk, "x", "insert", "after")) = 2

\* the number of tombstones of a table
Tombstones(rows) == Cardinality({i \in DOMAIN rows : ~IsLive(rows[i])})

C15_TriggersTableIsProtected ==
    [][(/\ last'.op \in {"insert_into", "update_table", "delete_from"}
        /\ last'.t = "triggers"
        /\ ~last'.flag)
         => /\ last'.r = "Rejected"
            /\ mem' = mem /\ disk' = disk
            /\ last'.before = 0 /\ last'.after = 0]_vars

\* an insert without the flag was turned away while a trigger is registered
\* for the inserts into the triggers table
C15_Witness ==
    /\ last.op = "insert_into" /\ last.t = "triggers" /\ ~last.flag
    /\ last.r = "Rejected"
    /\ Matching(disk, "triggers", "insert", "before") # {}

\* catalog c has no table t and no lock, length or insert-stack record of t
Gone(c, t) ==
    /\ t \notin DOMAIN c.tables
    /\ t \notin DOMAIN c.length
    /\ t \notin DOMAIN c.stack
    /\ LockRecords(c, t) = <<>>

\* C16: after a drop_table of a table other than triggers has returned, the
\* caller's catalog and the directory have no table of that name and no
\* lock, length or insert-stack record of it; a drop_table of the triggers
\* table changes neither the catalog nor the directory.
C16_DroppedTableIsGone ==
    [][last'.op = "drop_table" =>
          IF last'.t = "triggers"
          THEN mem' = mem /\ disk' = disk
          ELSE last'.r = "ok" =>
                  /\ Gone(mem'[last'.p], last'.t)
                  /\ Gone(disk', last'.t)]_vars

\* a table the caller had locked has been dropped while triggers are
\* registered
C16_Witness ==
    /\ last.op = "drop_table" /\ last.t = "x" /\ last.r = "ok"
    /\ last.own = "False"
    /\ disk.triggers # <<>>

---------------------------------------------------------------------------
(* Claims about a table created anew (Spec) *)

\* C28: after create_table the table of that name has no rows, the length
\* record 0 and an empty insert stack, in the catalog of the caller and in
\* the directory, also when a table of the name was there before.
C28_CreatedTableIsEmpty ==
    [][last'.op = "create_table" =>
          \A c \in {mem'[last'.p], disk'} :
              /\ c.tables[last'.t] = <<>>
              /\ c.length[last'.t] = 0
              /\ c.stack[last'.t] = <<>>]_vars

---------------------------------------------------------------------------
(* Claims about the insert and the slots it writes (Spec) *)

\* C24: an insert that the row store refused leaves the insert stack of the
\* table as the insert found it in the directory.
C24_FailedInsertKeepsStack ==
    [][last'.op = "insert_into" /\ last'.r = "Aborted" =>
          disk'.stack[last'.t] = disk.stack[last'.t]]_vars

\* C27: an insert that the row store accepted leaves every row that was
\* live in its slot with its values, and the table has one live row more.
C27_InsertKeepsLiveRows ==
    [][last'.op = "insert_into" /\ last'.r = "ok" =>
          LET old == Loaded(last'.t)
              new == disk'.tables[last'.t]
          IN /\ \A i \in DOMAIN old : IsLive(old[i]) => new[i] = old[i]
             /\ LiveCount(new) = LiveCount(old) + 1]_vars

---------------------------------------------------------------------------
(* Claims about the targets that take no lock (SpecExempt) *)

\* the targets lock_table and is_locked exempt
ExemptFromLocks == MetaNames \cup MetaPrefixedNames \cup {TableValue}

\* catalog c has no lock record of an exempt target
NoExemptRecord(c) ==
    \A i \in DOMAIN c.locks : c.locks[i].table_name \notin ExemptFromLocks

\* C21: no call leaves a lock record of a table whose name begins with
\* meta or of a Table object, in a catalog or in the directory; a
\* lock_table on such a target changes neither the caller's catalog nor the
\* directory, and an is_locked on it reports False.
C21_ExemptTargetsTakeNoLock ==
    [][/\ NoExemptRecord(disk')
       /\ \A p \in Procs : NoExemptRecord(mem'[p])
       /\ (last'.op = "lock_table" /\ last'.t \in ExemptFromLocks)
             => /\ last'.r \in {"None", "TypeError"}
                /\ mem' = mem /\ disk' = disk
       /\ (last'.op = "is_locked" /\ last'.t \in ExemptFromLocks)
             => last'.r = "False"]_vars

\* a lock was asked for on the table meta_x of the catalog, while table x
\* has the lock record of the other process
C21_Witness ==
    /\ last.op = "lock_table" /\ last.t \in MetaPrefixedNames
    /\ last.t \in DOMAIN mem[last.p].tables
    /\ OtherHolds("x", last.p)

---------------------------------------------------------------------------
(* Claims about the lock records under every interleaving (SpecIO) *)

\* C22: the persisted meta_locks holds at most one record of a table.
C22_OneLockRecordPerTable ==
    \A t \in TableNames : Len(LockRecords(disk, t)) <= 1

\* the two processes have both been told that they acquired the lock of a
\* table, and meta_locks holds one record of it
C22_Witness ==
    \E t \in TableNames :
        /\ Holders(t) = Procs
        /\ Len(LockRecords(disk, t)) = 1

\* C26: a step of a call of process A on a table leaves every persisted
\* lock record of another process on another table in meta_locks.
C26_OtherLocksStay ==
    [][\A z \in TableNames, b \in Procs :
          (/\ b # last'.p
           /\ z # last'.t
           /\ LockRecord(z, b) \in Range(disk.locks))
             => LockRecord(z, b) \in Range(disk'.locks)]_vars

---------------------------------------------------------------------------
(* Claims about calls that take the lock one after the other (SpecHandOff) *)

\* C25: a call that took the lock of a table after every earlier call had
\* released it persists its change on top of theirs: after an insert the
\* rows that were live in the file are live with their values and there is
\* one live row more; after a delete the file holds the rows it held, those
\* that meet the condition turned into tombstones.
C25_NoLostUpdate ==
    [][last'.r = "ok" =>
          LET old == disk.tables[last'.t]
              new == disk'.tables[last'.t]
          IN /\ last'.op = "insert_into" =>
                   /\ \A i \in DOMAIN old :
                         IsLive(old[i]) =>
                            i \in DOMAIN new /\ new[i] = old[i]
                   /\ LiveCount(new) = LiveCount(old) + 1
             /\ last'.op = "delete_from" =>
                   new = TableDeleteWhere(old, last'.arg[1]).rows]_vars

---------------------------------------------------------------------------
(* Claims about the order of the parts of a query (SpecOrder) *)

\* C23: when insert_into, update_table or delete_from calls
\* trigger_function after the query, the lock record the query inserted is
\* gone from the persisted meta_locks and the file of the table holds the
\* rows of the catalog of the caller.
C23_AfterTriggersFollowCommit ==
    [][last'.op = "after_triggers" /\ last'.after > 0 =>
          LET p == last'.p
              t == last'.t
          IN /\ loc[p].own = "True" => LockRecords(disk, t) = <<>>
             /\ disk.tables[t] = mem[p].tables[t]]_vars

===========================================================================
